---- MODULE Spec2Model ----
(***************************************************************************)
(* PiRecordPlayer: recovery of the album text from the raw blocks of an    *)
(* NFC tag (read_nfc_ndef.py), normalisation / validation of album URIs    *)
(* (play_album.py), the MFRC522 backend (read_nfc_mfrc522.py), the scan    *)
(* loop and device selection of the service (nfc_album_player_service.py)  *)
(* and the token handling of spotify_auth.py.                              *)
(*                                                                         *)
(* Texts and byte strings are sequences of integers: a Python str is the   *)
(* sequence of its code points, a bytes object the sequence of its byte    *)
(* values.  A Python value that is either None or a str is a record        *)
(* [kind, text]; kind "raise" stands for an exception leaving the call.    *)
(***************************************************************************)
EXTENDS Integers, Sequences, FiniteSets

VARIABLES
    pc,             \* position of read_from_nfc_tag_ndef: "request", "anticoll", "read" (block
                    \* loop), "done" (returned after parsing), "returned" (returned earlier)
    index,          \* loop variable of the block loop (read_nfc_ndef.py:31)
    all_blocks,     \* dict block index -> block string (read_nfc_ndef.py:30)
    all_bytes,      \* parse_nfc_data's assembled buffer at its return
    start_pos,      \* parse_nfc_data's start_pos (-1: marker absent or never searched)
    end_pos,        \* parse_nfc_data's end_pos (-1: never assigned)
    parsed_string,  \* value returned by parse_nfc_data
    ndef_result,    \* value returned by read_from_nfc_tag_ndef: the pair (text, error), error
                    \* "None" being None, or, with pair FALSE, the bare None of a function
                    \* that ends without a return statement
    upc,            \* position of the URI pipeline: "input", "normalized", "checked", ...
    uri,            \* raw string handed to normalize_album_uri
    normalized,     \* normalize_album_uri(uri)
    renormalized,   \* normalize_album_uri(normalized)
    valid,          \* validate_album_uri(normalized)
    spc,            \* position of process_album_scan: "call", "returned"
    album_uri_raw,  \* the scanned string handed to process_album_scan
    album_uri,      \* process_album_scan's album_uri
    remote_ops,     \* remote operations issued by the latest process_album_scan call, in order
    scan_result,    \* (success, message) returned by process_album_scan
    mpc,            \* position of read_from_nfc_tag_mfrc522
    mfrc_text,      \* its local text
    mfrc_exc,       \* str(e) of the exception its handler caught
    cleanup_count,  \* number of GPIO.cleanup() invocations during the call
    mfrc_result,    \* the pair (text, error) it returned
    rpc,            \* position of read_from_nfc_tag: "first", "second", "returned", "raised"
    backends,       \* the backends read_from_nfc_tag has invoked, in order
    read_result,    \* the pair (text, error) it returned, or the exception that left it
    lpc,            \* position of the service loop: "top", "reading", "stopped"
    now,            \* the clock, in ticks of half a second
    last_scanned_uri,   \* main's last_scanned_uri
    last_scan_time,     \* main's last_scan_time (NoTime: None)
    scan_count,     \* main's scan_count
    read_interrupted,   \* a user interrupt was delivered during a tag read
    log,            \* what the loop printed last
    dpc,            \* position of main's start-up: "devices", "select", "ready", "exited"
    program,        \* "service" (nfc_album_player_service.py) or "player" (play_album.py)
    DEVICE_ID,      \* the configured device id ("YOUR_DEVICE_ID" when not configured)
    devices,        \* ids of the list get_available_devices returned ("None": null id)
    device_id,      \* main's device_id ("None": None)
    commands,       \* the playback commands issued, each with the device id it used
    tpc,            \* position of get_valid_access_token
    storage,        \* the token file: access and refresh token ("None": missing)
    loaded,         \* the pair load_tokens returned
    tokens,         \* get_valid_access_token's access_token and refresh_token
    required_scope, \* the scope names of required_scope ({}: None or empty)
    requests,       \* the requests get_valid_access_token has issued, in order
    refresh_response,   \* access_token and refresh_token of the refresh response
    token_result    \* the value it returned ("None": None)

nfcVars == <<pc, index, all_blocks, all_bytes, start_pos, end_pos, parsed_string, ndef_result>>
uriVars == <<upc, uri, normalized, renormalized, valid>>
scanVars == <<spc, album_uri_raw, album_uri, remote_ops, scan_result>>
mfrcVars == <<mpc, mfrc_text, mfrc_exc, cleanup_count, mfrc_result>>
readVars == <<rpc, backends, read_result>>
loopVars == <<lpc, now, last_scanned_uri, last_scan_time, scan_count, read_interrupted, log>>
serviceVars == <<mfrcVars, readVars, loopVars>>
deviceVars == <<dpc, program, DEVICE_ID, devices, device_id, commands>>
tokenVars == <<tpc, storage, loaded, tokens, required_scope, requests, refresh_response,
               token_result>>
vars == <<nfcVars, uriVars, scanVars, serviceVars, deviceVars, tokenVars>>

(***************************************************************************)
(* Bounds of the model.                                                    *)
(***************************************************************************)
\* number of block indices the reader loop visits (the source visits 4: 4, 8, 12, 16)
MaxSector == 3
\* number of fragments a raw URI string is made of
MaxTokens == 4
\* the clock stops at MaxClock ticks
MaxClock == 9
\* a blocking read waits at most MaxWait ticks for a tag
MaxWait == 2
\* the loop processes at most MaxScans scans
MaxScans == 2
\* get_available_devices lists at most MaxDevices devices
MaxDevices == 2

(***************************************************************************)
(* Python values.                                                          *)
(***************************************************************************)
PyNone == [kind |-> "None", text |-> <<>>]
PyStr(t) == [kind |-> "str", text |-> t]
PyRaise == [kind |-> "raise", text |-> <<>>]

\* bool(x) of a value that is None or a str
Truthy(v) == v.kind = "str" /\ v.text # <<>>

(***************************************************************************)
(* String helpers (Python str / bytes methods).                            *)
(***************************************************************************)
Drop(s, n) == SubSeq(s, n + 1, Len(s))
Take(s, n) == SubSeq(s, 1, n)

\* s.startswith(p)
StartsWith(s, p) == Len(p) <= Len(s) /\ SubSeq(s, 1, Len(p)) = p

\* sub occurs in s at 0-based offset p
OccursAt(s, sub, p) == p >= 0 /\ p + Len(sub) <= Len(s) /\ SubSeq(s, p + 1, p + Len(sub)) = sub

\* sub in s
Contains(s, sub) == \E p \in 0..(Len(s) - Len(sub)) : OccursAt(s, sub, p)

RECURSIVE FindFrom(_, _, _)
FindFrom(s, sub, p) ==
    IF p + Len(sub) > Len(s) THEN -1
    ELSE IF OccursAt(s, sub, p) THEN p
    ELSE FindFrom(s, sub, p + 1)

RECURSIVE RFindFrom(_, _, _)
RFindFrom(s, sub, p) ==
    IF p < 0 THEN -1
    ELSE IF OccursAt(s, sub, p) THEN p
    ELSE RFindFrom(s, sub, p - 1)

\* a wrong find: the last occurrence instead of the first
FindLast(s, sub) == RFindFrom(s, sub, Len(s) - Len(sub))

\* s.find(sub): offset of the first occurrence, -1 when there is none
Find(s, sub) == FindFrom(s, sub, 0)

\* Python's str.isspace() on one code point, the set str.strip() removes
IsSpace(c) ==
    \/ c \in 9..13
    \/ c \in 28..32
    \/ c \in {133, 160, 5760, 8232, 8233, 8239, 8287, 12288}
    \/ c \in 8192..8202

RECURSIVE LStrip(_)
LStrip(s) == IF s # <<>> /\ IsSpace(Head(s)) THEN LStrip(Tail(s)) ELSE s

RECURSIVE RStrip(_)
RStrip(s) == IF s # <<>> /\ IsSpace(s[Len(s)]) THEN RStrip(Take(s, Len(s) - 1)) ELSE s

\* s.strip()
Strip(s) == LStrip(RStrip(s))

RECURSIVE RStripNul(_)
\* s.rstrip('\x00')
RStripNul(s) == IF s # <<>> /\ s[Len(s)] = 0 THEN RStripNul(Take(s, Len(s) - 1)) ELSE s

(***************************************************************************)
(* bytes.decode('utf-8', errors=...).                                      *)
(***************************************************************************)
IsCont(bs, j, lo, hi) == j <= Len(bs) /\ bs[j] >= lo /\ bs[j] <= hi

\* length of the well-formed UTF-8 sequence that starts at bs[1], 0 when there is none
Utf8Len(bs) ==
    LET c == bs[1] IN
    IF c <= 127 THEN 1
    ELSE IF c >= 194 /\ c <= 223 THEN (IF IsCont(bs, 2, 128, 191) THEN 2 ELSE 0)
    ELSE IF c = 224 THEN (IF IsCont(bs, 2, 160, 191) /\ IsCont(bs, 3, 128, 191) THEN 3 ELSE 0)
    ELSE IF c = 237 THEN (IF IsCont(bs, 2, 128, 159) /\ IsCont(bs, 3, 128, 191) THEN 3 ELSE 0)
    ELSE IF c >= 225 /\ c <= 239
         THEN (IF IsCont(bs, 2, 128, 191) /\ IsCont(bs, 3, 128, 191) THEN 3 ELSE 0)
    ELSE IF c = 240
         THEN (IF IsCont(bs, 2, 144, 191) /\ IsCont(bs, 3, 128, 191) /\ IsCont(bs, 4, 128, 191)
               THEN 4 ELSE 0)
    ELSE IF c >= 241 /\ c <= 243
         THEN (IF IsCont(bs, 2, 128, 191) /\ IsCont(bs, 3, 128, 191) /\ IsCont(bs, 4, 128, 191)
               THEN 4 ELSE 0)
    ELSE IF c = 244
         THEN (IF IsCont(bs, 2, 128, 143) /\ IsCont(bs, 3, 128, 191) /\ IsCont(bs, 4, 128, 191)
               THEN 4 ELSE 0)
    ELSE 0

\* code point of the well-formed sequence of n bytes at bs[1]
Utf8CodePoint(bs, n) ==
    IF n = 1 THEN bs[1]
    ELSE IF n = 2 THEN (bs[1] - 192) * 64 + (bs[2] - 128)
    ELSE IF n = 3 THEN (bs[1] - 224) * 4096 + (bs[2] - 128) * 64 + (bs[3] - 128)
    ELSE (bs[1] - 240) * 262144 + (bs[2] - 128) * 4096 + (bs[3] - 128) * 64 + (bs[4] - 128)

RECURSIVE Utf8Ignore(_)
\* the characters of the well-formed sequences; every byte that starts none is dropped
Utf8Ignore(bs) ==
    IF bs = <<>> THEN <<>>
    ELSE LET n == Utf8Len(bs) IN
         IF n = 0 THEN Utf8Ignore(Tail(bs))
         ELSE <<Utf8CodePoint(bs, n)>> \o Utf8Ignore(Drop(bs, n))

RECURSIVE Utf8WellFormed(_)
Utf8WellFormed(bs) ==
    bs = <<>> \/ (Utf8Len(bs) > 0 /\ Utf8WellFormed(Drop(bs, Utf8Len(bs))))

\* a wrong decode: errors='strict', UnicodeDecodeError on an ill-formed byte
DecodeStrict(bs) ==
    IF Utf8WellFormed(bs) THEN [raised |-> FALSE, text |-> Utf8Ignore(bs)]
    ELSE [raised |-> TRUE, text |-> <<>>]

\* bs.decode('utf-8', errors='ignore')
Decode(bs) == [raised |-> FALSE, text |-> Utf8Ignore(bs)]

(***************************************************************************)
(* parse_nfc_data (read_nfc_ndef.py:55-126).                               *)
(***************************************************************************)
Marker == <<115, 112, 111, 116, 105, 102, 121>>   \* b'spotify'
AllowedSpecial == <<224, 225, 62, 254>>           \* the characters of the allow-list string

\* the content floor of the truncation scan
ContentFloor == 10

\* block_str.encode('latin-1'): one byte per character, UnicodeEncodeError above 255
EncodeLatin1(block_str) ==
    IF \A i \in 1..Len(block_str) : block_str[i] <= 255
    THEN [raised |-> FALSE, bytes |-> block_str]
    ELSE [raised |-> TRUE, bytes |-> <<>>]

\* the bytes one block adds to all_bytes; a block that fails to encode adds none (try / except: pass)
BlockBytes(block_str) ==
    LET e == EncodeLatin1(block_str) IN IF e.raised THEN <<>> ELSE e.bytes

\* the test of the start-block loop on one block; False when the encoding raises
BlockHasMarker(block_str) ==
    LET e == EncodeLatin1(block_str) IN ~e.raised /\ Contains(e.bytes, Marker)

RECURSIVE SortedFrom(_)
\* sorted(keys): ascending
SortedFrom(keys) ==
    IF keys = {} THEN <<>>
    ELSE LET m == CHOOSE k \in keys : \A j \in keys : k <= j IN <<m>> \o SortedFrom(keys \ {m})

SortedKeys(block_data_dict) == SortedFrom(DOMAIN block_data_dict)

RECURSIVE FirstMarkerBlock(_, _)
FirstMarkerBlock(block_data_dict, order) ==
    IF order = <<>> THEN [found |-> FALSE, idx |-> 0]
    ELSE IF BlockHasMarker(block_data_dict[Head(order)]) THEN [found |-> TRUE, idx |-> Head(order)]
    ELSE FirstMarkerBlock(block_data_dict, Tail(order))

\* start_block after the first loop; found = FALSE stands for None
StartBlock(block_data_dict) == FirstMarkerBlock(block_data_dict, SortedKeys(block_data_dict))

\* max(block_data_dict.keys()): ValueError on an empty dict
MaxKey(block_data_dict) ==
    IF DOMAIN block_data_dict = {} THEN [raised |-> TRUE, value |-> 0]
    ELSE [raised |-> FALSE,
          value |-> CHOOSE k \in DOMAIN block_data_dict : \A j \in DOMAIN block_data_dict : j <= k]

RECURSIVE CollectRange(_, _, _)
\* for idx in range(idx, stop): if idx in block_data_dict: extend
CollectRange(block_data_dict, idx, stop) ==
    IF idx >= stop THEN <<>>
    ELSE (IF idx \in DOMAIN block_data_dict THEN BlockBytes(block_data_dict[idx]) ELSE <<>>)
         \o CollectRange(block_data_dict, idx + 1, stop)

RECURSIVE CollectOrder(_, _)
\* for idx in sorted(keys): extend
CollectOrder(block_data_dict, order) ==
    IF order = <<>> THEN <<>>
    ELSE BlockBytes(block_data_dict[Head(order)]) \o CollectOrder(block_data_dict, Tail(order))

\* a wrong collection: the range starts at the lowest key instead of start_block
CollectBytesFromFirstKey(block_data_dict) ==
    [raised |-> FALSE, bytes |-> CollectOrder(block_data_dict, SortedKeys(block_data_dict))]

\* a wrong collection: max() of the keys is taken before start_block is tested
CollectBytesUnguarded(block_data_dict) ==
    LET sb == StartBlock(block_data_dict)
        mx == MaxKey(block_data_dict)
    IN  IF mx.raised THEN [raised |-> TRUE, bytes |-> <<>>]
        ELSE IF sb.found
        THEN [raised |-> FALSE, bytes |-> CollectRange(block_data_dict, sb.idx, mx.value + 1)]
        ELSE [raised |-> FALSE, bytes |-> CollectOrder(block_data_dict, SortedKeys(block_data_dict))]

\* a wrong collection: no fallback, nothing is collected when no block holds the marker
CollectBytesNoFallback(block_data_dict) ==
    LET sb == StartBlock(block_data_dict) IN
    IF sb.found
    THEN [raised |-> FALSE,
          bytes |-> CollectRange(block_data_dict, sb.idx, MaxKey(block_data_dict).value + 1)]
    ELSE [raised |-> FALSE, bytes |-> <<>>]

\* all_bytes after the collection (lines 82-100)
CollectBytes(block_data_dict) ==
    LET sb == StartBlock(block_data_dict) IN
    IF sb.found
    THEN LET mx == MaxKey(block_data_dict) IN
         IF mx.raised THEN [raised |-> TRUE, bytes |-> <<>>]
         ELSE [raised |-> FALSE, bytes |-> CollectRange(block_data_dict, sb.idx, mx.value + 1)]
    ELSE [raised |-> FALSE, bytes |-> CollectOrder(block_data_dict, SortedKeys(block_data_dict))]

\* b == 0 or (b > 127 and chr(b) not in allow-list)
Disallowed(b) ==
    b = 0 \/ (b > 127 /\ ~(\E k \in 1..Len(AllowedSpecial) : AllowedSpecial[k] = b))

\* a wrong floor test: i >= 10
PastFloorInclusive(i) == i >= ContentFloor

\* if i > 10
PastFloor(i) == i > ContentFloor

RECURSIVE ScanEnd(_, _)
\* the enumerate loop: the first i with a disallowed byte past the floor, else len
ScanEnd(relevant_bytes, i) ==
    IF i >= Len(relevant_bytes) THEN Len(relevant_bytes)
    ELSE IF Disallowed(relevant_bytes[i + 1]) /\ PastFloor(i) THEN i
    ELSE ScanEnd(relevant_bytes, i + 1)

EndPos(relevant_bytes) == ScanEnd(relevant_bytes, 0)

\* .rstrip('\x00').strip()
CleanText(text) == Strip(RStripNul(text))

\* a wrong extraction: with no marker the whole buffer is used
ExtractTextFullBuffer(byte_array, pos) ==
    LET relevant_bytes == Drop(byte_array, IF pos = -1 THEN 0 ELSE pos)
        d == Decode(Take(relevant_bytes, EndPos(relevant_bytes)))
        t == CleanText(d.text)
    IN  IF d.raised THEN PyRaise ELSE IF pos = -1 /\ t = <<>> THEN PyNone ELSE PyStr(t)

\* lines 111-126: the value returned for a non-empty buffer whose find gave pos
ExtractText(byte_array, pos) ==
    IF pos # -1
    THEN LET relevant_bytes == Drop(byte_array, pos)
             d == Decode(Take(relevant_bytes, EndPos(relevant_bytes)))
         IN  IF d.raised THEN PyRaise ELSE PyStr(CleanText(d.text))
    ELSE PyNone

\* the locals and the return value of parse_nfc_data
ParseRun(block_data_dict) ==
    LET c == CollectBytes(block_data_dict) IN
    IF c.raised
    THEN [all_bytes |-> <<>>, start_pos |-> -1, end_pos |-> -1, ret |-> PyRaise]
    ELSE IF c.bytes = <<>>
    THEN [all_bytes |-> <<>>, start_pos |-> -1, end_pos |-> -1, ret |-> PyNone]
    ELSE LET p == Find(c.bytes, Marker) IN
         [all_bytes |-> c.bytes,
          start_pos |-> p,
          end_pos   |-> IF p # -1 THEN EndPos(Drop(c.bytes, p)) ELSE -1,
          ret       |-> ExtractText(c.bytes, p)]

parse_nfc_data(block_data_dict) == ParseRun(block_data_dict).ret

(***************************************************************************)
(* The block strings a read may yield: arbitrary lengths and byte values,  *)
(* one string with a character no byte can hold.                           *)
(***************************************************************************)
B_empty == <<>>
B_xxspotify_al == <<120, 120, 115, 112, 111, 116, 105, 102, 121, 58, 97, 108>>   \* 'xxspotify:al'
B_bum_ABC123 == <<98, 117, 109, 58, 65, 66, 67, 49, 50, 51, 0, 0>>   \* 'bum:ABC123\x00\x00'
B_xxspot == <<120, 120, 115, 112, 111, 116>>   \* 'xxspot'
B_ify_album_A == <<105, 102, 121, 58, 97, 108, 98, 117, 109, 58, 65>>   \* 'ify:album:A'
B_spotify_nul_sp == <<115, 112, 111, 116, 105, 102, 121, 0, 32>>   \* 'spotify\x00 '
B_nul_m_Z == <<0, 109, 58, 90>>   \* '\x00m:Z'
B_b_high == <<98, 128, 224, 119, 32>>   \* 'b\x80\xe0w '
B_um_allowed == <<117, 109, 224, 225, 254, 62, 81, 32>>   \* 'um\xe0\xe1\xfe>Q '
B_spotify_e_acute == <<115, 112, 111, 116, 105, 102, 121, 195, 169>>   \* 'spotify\xc3\xa9'
B_spotify_3byte == <<115, 112, 111, 116, 105, 102, 121, 225, 128, 128, 32, 0>>   \* 'spotify\xe1\x80\x80 \x00'
B_unencodable == <<115, 112, 111, 116, 105, 102, 121, 256>>   \* 'spotifyĀ'
B_spotify_album_B == <<115, 112, 111, 116, 105, 102, 121, 58, 97, 108, 98, 117, 109, 58, 66>>   \* 'spotify:album:B'

BlockPool ==
    {B_empty, B_xxspotify_al, B_bum_ABC123, B_xxspot, B_ify_album_A, B_spotify_nul_sp,
     B_nul_m_Z, B_b_high, B_um_allowed, B_spotify_e_acute, B_spotify_3byte, B_unencodable,
     B_spotify_album_B}

(***************************************************************************)
(* read_from_nfc_tag_ndef, from the block loop on (read_nfc_ndef.py:30-47).*)
(***************************************************************************)
\* range(4, 17, 4): first index and step
BlockStep == 4
LastIndex == BlockStep * MaxSector

NoBlocks == [i \in {} |-> <<>>]

\* the value of a call that ends without reaching a return statement
NoReturnValue == [pair |-> FALSE, text |-> PyNone, error |-> "None"]

ReturnPair(text, error) == [pair |-> TRUE, text |-> text, error |-> error]

\* what a driver call reports: the status MI_OK, another status, or it raises
DriverOutcomes == {"MI_OK", "MI_ERR", "raise"}

NfcInit ==
    /\ pc = "request"
    /\ index = BlockStep
    /\ all_blocks = NoBlocks
    /\ all_bytes = <<>>
    /\ start_pos = -1
    /\ end_pos = -1
    /\ parsed_string = PyNone
    /\ ndef_result = NoReturnValue

NfcIdle ==
    /\ pc = "idle"
    /\ index = BlockStep
    /\ all_blocks = NoBlocks
    /\ all_bytes = <<>>
    /\ start_pos = -1
    /\ end_pos = -1
    /\ parsed_string = PyNone
    /\ ndef_result = NoReturnValue

\* MFRC522_Request: a tag is found, no tag is found (the function then ends
\* without a return statement), or the driver raises
Request ==
    /\ pc = "request"
    /\ \E status \in DriverOutcomes :
          /\ pc' = IF status = "MI_OK" THEN "anticoll" ELSE "returned"
          /\ ndef_result' = IF status = "raise" THEN ReturnPair(PyNone, "Error: exception")
                            ELSE NoReturnValue
    /\ UNCHANGED <<index, all_blocks, all_bytes, start_pos, end_pos, parsed_string>>

\* MFRC522_Anticoll, then MFRC522_SelectTag and all_blocks = {}
Anticoll ==
    /\ pc = "anticoll"
    /\ \E status \in DriverOutcomes :
          /\ pc' = IF status = "MI_OK" THEN "read" ELSE "returned"
          /\ ndef_result' = IF status = "raise" THEN ReturnPair(PyNone, "Error: exception")
                            ELSE IF status = "MI_ERR" THEN ReturnPair(PyNone, "Error obtaining UID")
                            ELSE NoReturnValue
    /\ UNCHANGED <<index, all_blocks, all_bytes, start_pos, end_pos, parsed_string>>

\* one iteration whose MFRC522_Read returns: all_blocks[index] = result
ReadBlock(data) ==
    /\ pc = "read"
    /\ index <= LastIndex
    /\ all_blocks' = [i \in DOMAIN all_blocks \cup {index} |->
                        IF i = index THEN data ELSE all_blocks[i]]
    /\ index' = index + BlockStep
    /\ UNCHANGED <<pc, all_bytes, start_pos, end_pos, parsed_string, ndef_result>>

\* one iteration whose read raises: except ... pass
ReadBlockFails ==
    /\ pc = "read"
    /\ index <= LastIndex
    /\ index' = index + BlockStep
    /\ UNCHANGED <<pc, all_blocks, all_bytes, start_pos, end_pos, parsed_string, ndef_result>>

\* after the loop: parsed_string = parse_nfc_data(all_blocks) and the return
ParseBlocks ==
    /\ pc = "read"
    /\ index > LastIndex
    /\ LET r == ParseRun(all_blocks) IN
        /\ all_bytes' = r.all_bytes
        /\ start_pos' = r.start_pos
        /\ end_pos' = r.end_pos
        /\ parsed_string' = r.ret
        /\ ndef_result' =
             IF Truthy(r.ret) THEN ReturnPair(r.ret, "None")
             ELSE ReturnPair(PyNone, IF r.ret.kind = "raise" THEN "Error: exception"
                                     ELSE "Could not parse string from blocks")
    /\ pc' = "done"
    /\ UNCHANGED <<index, all_blocks>>

(***************************************************************************)
(* validate_album_uri and normalize_album_uri (play_album.py:95-132).      *)
(***************************************************************************)
CanonicalPrefix == <<115, 112, 111, 116, 105, 102, 121, 58, 97, 108, 98, 117, 109, 58>>   \* 'spotify:album:'
WebLinkMarker == <<111, 112, 101, 110, 46, 115, 112, 111, 116, 105, 102, 121, 46, 99, 111, 109, 47, 97, 108, 98, 117, 109, 47>>   \* 'open.spotify.com/album/'
AlbumSegment == <<47, 97, 108, 98, 117, 109, 47>>   \* '/album/'
Http == <<104, 116, 116, 112>>   \* 'http'
Colon == <<58>>        \* ':'
QuestionMark == <<63>> \* '?'
Slash == <<47>>        \* '/'

RECURSIVE SplitLast(_, _)
\* s.split(sep)[-1]: what follows the last separator of the left-to-right split
SplitLast(s, sep) ==
    LET p == Find(s, sep) IN
    IF p = -1 THEN s ELSE SplitLast(Drop(s, p + Len(sep)), sep)

\* s.split(sep)[0]: what precedes the first separator
SplitFirst(s, sep) ==
    LET p == Find(s, sep) IN IF p = -1 THEN s ELSE Take(s, p)

\* a wrong validation: the id after the prefix may be empty
validate_album_uri_any_id(u) ==
    IF u = <<>> THEN FALSE
    ELSE LET s == Strip(u) IN StartsWith(s, CanonicalPrefix) \/ Contains(s, WebLinkMarker)

\* a wrong validation: the prefix may stand anywhere in the string
validate_album_uri_prefix_anywhere(u) ==
    IF u = <<>> THEN FALSE
    ELSE LET s == Strip(u) IN
         \/ Contains(s, CanonicalPrefix) /\ Len(SplitLast(s, CanonicalPrefix)) > 0
         \/ Contains(s, WebLinkMarker)

validate_album_uri(u) ==
    IF u = <<>> THEN FALSE
    ELSE LET s == Strip(u) IN
         \/ StartsWith(s, CanonicalPrefix) /\ Len(SplitLast(s, CanonicalPrefix)) > 0
         \/ Contains(s, WebLinkMarker)

\* a wrong normalisation: the input is not trimmed
normalize_album_uri_untrimmed(u) ==
    IF StartsWith(u, CanonicalPrefix) THEN u
    ELSE IF Contains(u, WebLinkMarker)
    THEN CanonicalPrefix \o SplitFirst(SplitFirst(SplitLast(u, AlbumSegment), QuestionMark), Slash)
    ELSE IF ~Contains(u, Colon) /\ ~Contains(u, Http) THEN CanonicalPrefix \o u
    ELSE u

\* a wrong normalisation: whatever is not recognised is wrapped as a bare id
normalize_album_uri_wrap_all(u) ==
    LET s == Strip(u) IN
    IF StartsWith(s, CanonicalPrefix) THEN s
    ELSE IF Contains(s, WebLinkMarker)
    THEN CanonicalPrefix \o SplitFirst(SplitFirst(SplitLast(s, AlbumSegment), QuestionMark), Slash)
    ELSE CanonicalPrefix \o s

normalize_album_uri(u) ==
    LET s == Strip(u) IN
    IF StartsWith(s, CanonicalPrefix) THEN s
    ELSE IF Contains(s, WebLinkMarker)
    THEN CanonicalPrefix \o SplitFirst(SplitFirst(SplitLast(s, AlbumSegment), QuestionMark), Slash)
    ELSE IF ~Contains(s, Colon) /\ ~Contains(s, Http) THEN CanonicalPrefix \o s
    ELSE s

(***************************************************************************)
(* The raw strings: every concatenation of at most MaxTokens fragments.    *)
(***************************************************************************)
T_space == <<32>>                  \* ' '
T_id == <<52, 105, 86, 53>>        \* '4iV5'
T_query == <<63, 115, 105, 61, 49>>   \* '?si=1'

Tokens == {T_space, CanonicalPrefix, WebLinkMarker, T_id, T_query, Slash, Colon, Http}

RECURSIVE Concat(_)
Concat(ts) == IF ts = <<>> THEN <<>> ELSE Head(ts) \o Concat(Tail(ts))

UriInputs == {Concat(ts) : ts \in UNION {[1..n -> Tokens] : n \in 0..MaxTokens}}

UriIdle ==
    /\ upc = "idle"
    /\ uri = <<>>
    /\ normalized = <<>>
    /\ renormalized = <<>>
    /\ valid = FALSE

UriInit ==
    /\ upc = "input"
    /\ uri \in UriInputs
    /\ normalized = <<>>
    /\ renormalized = <<>>
    /\ valid = FALSE

\* normalized_uri = normalize_album_uri(album_uri)
Normalize ==
    /\ upc = "input"
    /\ normalized' = normalize_album_uri(uri)
    /\ upc' = "normalized"
    /\ UNCHANGED <<uri, renormalized, valid>>

\* validate_album_uri(normalized_uri)
Validate ==
    /\ upc = "normalized"
    /\ valid' = validate_album_uri(normalized)
    /\ upc' = "checked"
    /\ UNCHANGED <<uri, normalized, renormalized>>

\* validate_album_uri applied to the raw string itself
ValidateRaw ==
    /\ upc = "input"
    /\ valid' = validate_album_uri(uri)
    /\ upc' = "raw_checked"
    /\ UNCHANGED <<uri, normalized, renormalized>>

\* normalize_album_uri applied to its own result
Renormalize ==
    /\ upc = "checked"
    /\ renormalized' = normalize_album_uri(normalized)
    /\ upc' = "renormalized"
    /\ UNCHANGED <<uri, normalized, valid>>

(***************************************************************************)
(* process_album_scan (nfc_album_player_service.py).  The remote service   *)
(* answers each request with the expected status, another status, or the   *)
(* request raises (timeout, connection error, malformed body).             *)
(***************************************************************************)
Responses == {"ok", "other", "raise"}

\* a request: the operation, its argument and how the remote service answered
RemoteOp(name, arg, status) == [op |-> name, arg |-> arg, status |-> status]

\* the album id get_album_info puts into its request
AlbumId(u) == IF Contains(u, CanonicalPrefix) THEN SplitLast(u, CanonicalPrefix) ELSE u

M_invalid == <<73, 110, 118, 97, 108, 105, 100, 32, 97, 108, 98, 117, 109, 32, 85, 82, 73, 58, 32>>   \* 'Invalid album URI: '
M_playing == <<80, 108, 97, 121, 105, 110, 103, 32, 97, 108, 98, 117, 109>>   \* 'Playing album'
M_failed == <<70, 97, 105, 108, 101, 100, 32, 116, 111, 32, 115, 116, 97, 114, 116, 32, 112, 108, 97, 121, 98, 97, 99, 107>>   \* 'Failed to start playback'
M_error == <<69, 114, 114, 111, 114, 32, 112, 114, 111, 99, 101, 115, 115, 105, 110, 103, 32, 97, 108, 98, 117, 109, 58, 32>>   \* 'Error processing album: '
E_timeout == <<116, 105, 109, 101, 100, 32, 111, 117, 116>>   \* str(e) of the exception raised by a request

\* a wrong message: the normalised string is reported instead of the scanned one
InvalidMessageNormalized(raw, norm) == M_invalid \o norm

InvalidMessage(raw, norm) == M_invalid \o raw

NoResult == [success |-> FALSE, message |-> <<>>]

\* a wrong call: the play command is issued only after a successful transfer
process_album_scan_after_transfer(raw, info, transfer, play) ==
    LET norm == normalize_album_uri(raw)
        get == RemoteOp("get_album_info", AlbumId(norm), info)
        xfer == RemoteOp("transfer_playback", <<>>, transfer)
        start == RemoteOp("play_album", norm, play)
        failed == [success |-> FALSE, message |-> M_error \o E_timeout]
    IN  IF ~validate_album_uri(norm)
        THEN [album_uri |-> norm, ops |-> <<>>,
              result |-> [success |-> FALSE, message |-> InvalidMessage(raw, norm)]]
        ELSE IF info = "raise"
        THEN [album_uri |-> norm, ops |-> <<get>>, result |-> failed]
        ELSE IF transfer = "raise"
        THEN [album_uri |-> norm, ops |-> <<get, xfer>>, result |-> failed]
        ELSE IF transfer # "ok"
        THEN [album_uri |-> norm, ops |-> <<get, xfer>>,
              result |-> [success |-> FALSE, message |-> M_failed]]
        ELSE IF play = "raise"
        THEN [album_uri |-> norm, ops |-> <<get, xfer, start>>, result |-> failed]
        ELSE IF play = "ok"
        THEN [album_uri |-> norm, ops |-> <<get, xfer, start>>,
              result |-> [success |-> TRUE, message |-> M_playing]]
        ELSE [album_uri |-> norm, ops |-> <<get, xfer, start>>,
              result |-> [success |-> FALSE, message |-> M_failed]]

\* the call's effect: album_uri, the remote operations in order, the returned pair
process_album_scan(raw, info, transfer, play) ==
    LET norm == normalize_album_uri(raw)
        get == RemoteOp("get_album_info", AlbumId(norm), info)
        xfer == RemoteOp("transfer_playback", <<>>, transfer)
        start == RemoteOp("play_album", norm, play)
        failed == [success |-> FALSE, message |-> M_error \o E_timeout]
    IN  IF ~validate_album_uri(norm)
        THEN [album_uri |-> norm, ops |-> <<>>,
              result |-> [success |-> FALSE, message |-> InvalidMessage(raw, norm)]]
        ELSE IF info = "raise"
        THEN [album_uri |-> norm, ops |-> <<get>>, result |-> failed]
        ELSE IF transfer = "raise"
        THEN [album_uri |-> norm, ops |-> <<get, xfer>>, result |-> failed]
        ELSE IF play = "raise"
        THEN [album_uri |-> norm, ops |-> <<get, xfer, start>>, result |-> failed]
        ELSE IF play = "ok"
        THEN [album_uri |-> norm, ops |-> <<get, xfer, start>>,
              result |-> [success |-> TRUE, message |-> M_playing]]
        ELSE [album_uri |-> norm, ops |-> <<get, xfer, start>>,
              result |-> [success |-> FALSE, message |-> M_failed]]

ScanIdle ==
    /\ spc = "idle"
    /\ album_uri_raw = <<>>
    /\ album_uri = <<>>
    /\ remote_ops = <<>>
    /\ scan_result = NoResult

ScanInit ==
    /\ spc = "call"
    /\ album_uri_raw \in UriInputs
    /\ album_uri = <<>>
    /\ remote_ops = <<>>
    /\ scan_result = NoResult

\* one call of process_album_scan, from entry to return
ProcessScan ==
    /\ spc = "call"
    /\ \E info \in Responses, transfer \in Responses, play \in Responses :
          LET r == process_album_scan(album_uri_raw, info, transfer, play)
          IN  /\ album_uri' = r.album_uri
              /\ remote_ops' = r.ops
              /\ scan_result' = r.result
    /\ spc' = "returned"
    /\ UNCHANGED album_uri_raw

(***************************************************************************)
(* read_from_nfc_tag_mfrc522 (read_nfc_mfrc522.py), read_from_nfc_tag      *)
(* (play_album.py:67-92) and the scan loop of the service                  *)
(* (nfc_album_player_service.py:138-207).  Time is counted in ticks of     *)
(* half a second, the shortest sleep of the loop.                          *)
(***************************************************************************)
TicksPerSecond == 2
DEBOUNCE_SECONDS == 3
NoTime == -1

Pair(text, error) == [text |-> text, error |-> error]
NoPair == Pair(PyNone, PyNone)

\* str.lower() on ASCII text
Lower(s) == [i \in DOMAIN s |-> IF s[i] \in 65..90 THEN s[i] + 32 ELSE s[i]]

NotFound == <<110, 111, 116, 32, 102, 111, 117, 110, 100>>   \* 'not found'
M_no_library == <<77, 70, 82, 67, 53, 50, 50, 32, 108, 105, 98, 114, 97, 114, 121, 32, 110, 111, 116, 32, 102, 111, 117, 110, 100>>   \* 'MFRC522 library not found'
M_cancelled == <<67, 97, 110, 99, 101, 108, 108, 101, 100, 32, 98, 121, 32, 117, 115, 101, 114>>   \* 'Cancelled by user'
M_error_reading == <<69, 114, 114, 111, 114, 32, 114, 101, 97, 100, 105, 110, 103, 32, 116, 97, 103, 58, 32>>   \* 'Error reading tag: '
E_device_not_found == <<68, 101, 118, 105, 99, 101, 32, 78, 111, 116, 32, 70, 111, 117, 110, 100>>   \* 'Device Not Found'
M_no_reader == <<78, 111, 32, 78, 70, 67, 32, 114, 101, 97, 100, 101, 114, 32, 108, 105, 98, 114, 97, 114, 105, 101, 115, 32, 102, 111, 117, 110, 100, 46, 32, 73, 110, 115, 116, 97, 108, 108, 32, 109, 102, 114, 99, 53, 50, 50, 32, 111, 114, 32, 110, 102, 99, 112, 121, 46>>   \* 'No NFC reader libraries found. Install mfrc522 or nfcpy.'
M_read_failed == <<70, 97, 105, 108, 101, 100, 32, 116, 111, 32, 114, 101, 97, 100, 32, 102, 114, 111, 109, 32, 78, 70, 67, 32, 116, 97, 103>>   \* 'Failed to read from NFC tag'
M_could_not_parse == <<67, 111, 117, 108, 100, 32, 110, 111, 116, 32, 112, 97, 114, 115, 101, 32, 115, 116, 114, 105, 110, 103, 32, 102, 114, 111, 109, 32, 98, 108, 111, 99, 107, 115>>   \* 'Could not parse string from blocks'
M_uid == <<69, 114, 114, 111, 114, 32, 111, 98, 116, 97, 105, 110, 105, 110, 103, 32, 85, 73, 68>>   \* 'Error obtaining UID'
M_ndef_error == <<69, 114, 114, 111, 114, 58, 32, 101, 120, 99, 101, 112, 116, 105, 111, 110>>   \* 'Error: exception'
T_padded_uri == <<115, 112, 111, 116, 105, 102, 121, 58, 97, 108, 98, 117, 109, 58, 52, 105, 86, 53, 32, 32>>   \* 'spotify:album:4iV5  '
T_padded_id == <<52, 105, 86, 53, 0, 0, 32>>   \* '4iV5' NUL NUL ' '
T_blank == <<32, 32>>   \* '  '
T_space_nul == <<52, 105, 86, 53, 32, 0>>   \* '4iV5' ' ' NUL

\* the texts reader.read() returns
TagTexts == {T_padded_uri, T_padded_id, T_space_nul, T_blank, Colon}

\* str(e) of the exceptions the driver raises
ExceptionTexts == {E_timeout, E_device_not_found}

\* a release that does nothing
GPIO_cleanup_skipped(n) == n

\* GPIO.cleanup(): one more invocation
GPIO_cleanup(n) == n + 1

NoRead == [text |-> PyNone, error |-> PyNone, raised |-> "None"]

\* before any call: no backend, no read, no loop
ServiceIdle ==
    /\ mpc = "idle"
    /\ mfrc_text = <<>>
    /\ mfrc_exc = <<>>
    /\ cleanup_count = 0
    /\ mfrc_result = NoPair
    /\ rpc = "idle"
    /\ backends = <<>>
    /\ read_result = NoRead
    /\ lpc = "idle"
    /\ now = 0
    /\ last_scanned_uri = PyNone
    /\ last_scan_time = NoTime
    /\ scan_count = 0
    /\ read_interrupted = FALSE
    /\ log = "none"

\* the loop is entered: last_scanned_uri = None, last_scan_time = None, scan_count = 0
LoopInit ==
    /\ mpc = "idle"
    /\ mfrc_text = <<>>
    /\ mfrc_exc = <<>>
    /\ cleanup_count = 0
    /\ mfrc_result = NoPair
    /\ rpc = "idle"
    /\ backends = <<>>
    /\ read_result = NoRead
    /\ lpc = "top"
    /\ now = 0
    /\ last_scanned_uri = PyNone
    /\ last_scan_time = NoTime
    /\ scan_count = 0
    /\ read_interrupted = FALSE
    /\ log = "none"

\* while True: "Waiting for NFC tag...", read_from_nfc_tag() is entered and calls the
\* first backend; the values of the previous iteration are dead
LoopRead ==
    /\ lpc = "top"
    /\ lpc' = "reading"
    /\ log' = "waiting"
    /\ rpc' = "first"
    /\ backends' = <<"mfrc522">>
    /\ read_result' = NoRead
    /\ mpc' = "import"
    /\ mfrc_text' = <<>>
    /\ mfrc_exc' = <<>>
    /\ cleanup_count' = 0
    /\ mfrc_result' = NoPair
    /\ spc' = "idle"
    /\ album_uri_raw' = <<>>
    /\ album_uri' = <<>>
    /\ remote_ops' = <<>>
    /\ scan_result' = NoResult
    /\ UNCHANGED <<now, last_scanned_uri, last_scan_time, scan_count, read_interrupted>>

\* from mfrc522 import SimpleMFRC522; from RPi import GPIO
MfrcImport ==
    /\ mpc = "import"
    /\ \E found \in BOOLEAN :
          /\ mpc' = IF found THEN "acquire" ELSE "no_library"
          /\ mfrc_result' = IF found THEN mfrc_result ELSE Pair(PyNone, PyStr(M_no_library))
    /\ UNCHANGED <<mfrc_text, mfrc_exc, cleanup_count, readVars, loopVars, scanVars>>

\* reader = SimpleMFRC522(): the reader is acquired, or the driver raises
MfrcAcquire ==
    /\ mpc = "acquire"
    /\ \E ok \in BOOLEAN, e \in ExceptionTexts :
          /\ mpc' = IF ok THEN "read" ELSE "on_exception"
          /\ mfrc_exc' = IF ok THEN mfrc_exc ELSE e
    /\ UNCHANGED <<mfrc_text, cleanup_count, mfrc_result, readVars, loopVars, scanVars>>

\* _, text = reader.read(): blocks until a tag answers, the driver raises, or the
\* user interrupts
MfrcRead ==
    /\ mpc = "read"
    /\ \/ \E t \in TagTexts, d \in 0..MaxWait :
            /\ now + d <= MaxClock
            /\ now' = now + d
            /\ mfrc_text' = t
            /\ mpc' = "cleanup"
            /\ UNCHANGED <<mfrc_exc, read_interrupted>>
       \/ \E e \in ExceptionTexts :
            /\ mfrc_exc' = e
            /\ mpc' = "on_exception"
            /\ UNCHANGED <<now, mfrc_text, read_interrupted>>
       \/ /\ read_interrupted' = TRUE
          /\ mpc' = "on_interrupt"
          /\ UNCHANGED <<now, mfrc_text, mfrc_exc>>
    /\ UNCHANGED <<cleanup_count, mfrc_result, readVars, scanVars,
                   lpc, last_scanned_uri, last_scan_time, scan_count, log>>

\* GPIO.cleanup() after the read; it may raise
MfrcCleanup ==
    /\ mpc = "cleanup"
    /\ cleanup_count' = GPIO_cleanup(cleanup_count)
    /\ \E ok \in BOOLEAN, e \in ExceptionTexts :
          /\ mpc' = IF ok THEN "strip" ELSE "on_exception"
          /\ mfrc_exc' = IF ok THEN mfrc_exc ELSE e
    /\ UNCHANGED <<mfrc_text, mfrc_result, readVars, loopVars, scanVars>>

\* text = text.strip().rstrip('\x00'); return text, None
MfrcReturnText ==
    /\ mpc = "strip"
    /\ mfrc_text' = RStripNul(Strip(mfrc_text))
    /\ mfrc_result' = Pair(PyStr(mfrc_text'), PyNone)
    /\ mpc' = "returned"
    /\ UNCHANGED <<mfrc_exc, cleanup_count, readVars, loopVars, scanVars>>

\* except KeyboardInterrupt: GPIO.cleanup(); return None, "Cancelled by user";
\* a cleanup that raises leaves the function with that exception
MfrcOnInterrupt ==
    /\ mpc = "on_interrupt"
    /\ cleanup_count' = GPIO_cleanup(cleanup_count)
    /\ \E ok \in BOOLEAN :
          /\ mpc' = IF ok THEN "returned" ELSE "raised"
          /\ mfrc_result' = IF ok THEN Pair(PyNone, PyStr(M_cancelled)) ELSE mfrc_result
    /\ UNCHANGED <<mfrc_text, mfrc_exc, readVars, loopVars, scanVars>>

\* except Exception as e: GPIO.cleanup(), whatever it raises being ignored;
\* return None, f"Error reading tag: {str(e)}"
MfrcOnException ==
    /\ mpc = "on_exception"
    /\ cleanup_count' = GPIO_cleanup(cleanup_count)
    /\ mfrc_result' = Pair(PyNone, PyStr(M_error_reading \o mfrc_exc))
    /\ mpc' = "returned"
    /\ UNCHANGED <<mfrc_text, mfrc_exc, readVars, loopVars, scanVars>>

\* the first backend has returned
MfrcReturned == mpc \in {"no_library", "returned"}

\* the test on the comparison of the error text: case is kept
ContainsNotFoundCaseSensitive(error) == Contains(error, NotFound)

\* "not found" in error.lower()
ContainsNotFound(error) == Contains(Lower(error), NotFound)

\* text is None and error and "not found" not in error.lower()
FirstFailedOtherwise(text, error) ==
    /\ text = PyNone
    /\ Truthy(error)
    /\ ~ContainsNotFound(error.text)

\* read_from_nfc_tag after the first backend: return its error, return its text,
\* or call the second backend
AfterFirst ==
    /\ rpc = "first"
    /\ mpc \in {"no_library", "returned", "raised"}
    /\ IF mpc = "raised"
       THEN /\ rpc' = "raised"
            /\ read_result' = [text |-> PyNone, error |-> PyNone, raised |-> "Exception"]
            /\ UNCHANGED backends
       ELSE IF FirstFailedOtherwise(mfrc_result.text, mfrc_result.error)
       THEN /\ rpc' = "returned"
            /\ read_result' = [text |-> PyNone, error |-> mfrc_result.error, raised |-> "None"]
            /\ UNCHANGED backends
       ELSE IF Truthy(mfrc_result.text)
       THEN /\ rpc' = "returned"
            /\ read_result' = [text |-> mfrc_result.text, error |-> PyNone, raised |-> "None"]
            /\ UNCHANGED backends
       ELSE /\ rpc' = "second"
            /\ backends' = Append(backends, "ndef")
            /\ UNCHANGED read_result
    /\ UNCHANGED <<mfrcVars, loopVars, scanVars>>

\* the values read_from_nfc_tag_ndef returns
NdefOutcomes ==
    {NoReturnValue,
     ReturnPair(PyStr(CanonicalPrefix \o T_id), "None"),
     ReturnPair(PyNone, "Could not parse string from blocks"),
     ReturnPair(PyNone, "Error obtaining UID"),
     ReturnPair(PyNone, "Error: exception")}

\* the error of read_from_nfc_tag_ndef as a Python value
ErrorValue(e) ==
    CASE e = "None" -> PyNone
      [] e = "Could not parse string from blocks" -> PyStr(M_could_not_parse)
      [] e = "Error obtaining UID" -> PyStr(M_uid)
      [] e = "Error: exception" -> PyStr(M_ndef_error)

\* text, error = read_from_nfc_tag_ndef() and the rest of read_from_nfc_tag; an
\* interrupt delivered meanwhile leaves the call as KeyboardInterrupt
SecondBackend ==
    /\ rpc = "second"
    /\ \/ \E r \in NdefOutcomes :
            LET error == ErrorValue(r.error) IN
            /\ read_interrupted' = read_interrupted
            /\ IF ~r.pair
               THEN /\ rpc' = "raised"
                    /\ read_result' = [text |-> PyNone, error |-> PyNone, raised |-> "TypeError"]
               ELSE /\ rpc' = "returned"
                    /\ read_result' =
                         IF Truthy(r.text)
                         THEN [text |-> r.text, error |-> PyNone, raised |-> "None"]
                         ELSE IF (IF Truthy(error) THEN ContainsNotFound(error.text) ELSE TRUE)
                         THEN [text |-> PyNone, error |-> PyStr(M_no_reader), raised |-> "None"]
                         ELSE [text |-> PyNone,
                               error |-> IF Truthy(error) THEN error ELSE PyStr(M_read_failed),
                               raised |-> "None"]
       \/ /\ read_interrupted' = TRUE
          /\ rpc' = "raised"
          /\ read_result' = [text |-> PyNone, error |-> PyNone, raised |-> "KeyboardInterrupt"]
    /\ UNCHANGED <<backends, mfrcVars, scanVars,
                   lpc, now, last_scanned_uri, last_scan_time, scan_count, log>>

\* a wrong window: a scan exactly DEBOUNCE_SECONDS later is still ignored
DebouncedInclusive(raw, last_uri, last_time, current_time) ==
    /\ raw = last_uri
    /\ last_time # NoTime
    /\ current_time - last_time <= DEBOUNCE_SECONDS * TicksPerSecond

\* album_uri_raw == last_scanned_uri and last_scan_time and
\* (current_time - last_scan_time).total_seconds() < DEBOUNCE_SECONDS
Debounced(raw, last_uri, last_time, current_time) ==
    /\ raw = last_uri
    /\ last_time # NoTime
    /\ current_time - last_time < DEBOUNCE_SECONDS * TicksPerSecond

\* a wrong loop: an unexpected reader exception ends it
NextPositionGivingUp(branch, stop) ==
    IF stop \/ branch \in {"interrupt", "unexpected_error"} THEN "stopped" ELSE "top"

\* where the loop is after the iteration: a KeyboardInterrupt leaves it for the
\* handler that prints the stop summary, every other outcome continues it
NextPosition(branch, stop) ==
    IF stop \/ branch = "interrupt" THEN "stopped" ELSE "top"

\* the rest of the iteration once read_from_nfc_tag has returned or raised: the
\* error branches, the debounce test, the scan, and the sleep that ends the
\* iteration; a user interrupt during that sleep stops the service
HandleRead ==
    /\ lpc = "reading"
    /\ rpc \in {"returned", "raised"}
    /\ \E stop \in BOOLEAN, info \in Responses, transfer \in Responses, play \in Responses :
          LET raw == read_result.text
              branch == IF read_result.raised = "KeyboardInterrupt" THEN "interrupt"
                        ELSE IF read_result.raised # "None" THEN "unexpected_error"
                        ELSE IF Truthy(read_result.error) THEN "error"
                        ELSE IF ~Truthy(raw) THEN "no_data"
                        ELSE IF Debounced(raw, last_scanned_uri, last_scan_time, now)
                        THEN "same_tag"
                        ELSE "scan"
              r == process_album_scan(raw.text, info, transfer, play)
              pause == CASE branch = "interrupt" -> 0
                         [] branch = "unexpected_error" -> 2 * TicksPerSecond
                         [] branch = "scan" ->
                              (IF Len(r.ops) >= 2 THEN TicksPerSecond \div 2 ELSE 0)
                              + TicksPerSecond \div 2
                         [] OTHER -> TicksPerSecond
          IN  /\ now + pause <= MaxClock
              /\ now' = now + pause
              /\ IF branch = "scan"
                 THEN /\ scan_count < MaxScans
                      /\ scan_count' = scan_count + 1
                      /\ spc' = "returned"
                      /\ album_uri_raw' = raw.text
                      /\ album_uri' = r.album_uri
                      /\ remote_ops' = r.ops
                      /\ scan_result' = r.result
                      /\ last_scanned_uri' = raw
                      /\ last_scan_time' = now
                 ELSE UNCHANGED <<scan_count, last_scanned_uri, last_scan_time, scanVars>>
              /\ lpc' = NextPosition(branch, stop)
              /\ log' = IF stop \/ branch = "interrupt" THEN "stopped" ELSE branch
    /\ UNCHANGED <<read_interrupted, mfrcVars, readVars>>

(***************************************************************************)
(* Device selection at start-up, the same code in the service              *)
(* (nfc_album_player_service.py:96-129) and in the one-shot player         *)
(* (play_album.py:199-232), and the playback commands that use its result. *)
(***************************************************************************)
\* ids a listed device can have; "None" is the id of a device that has none
DeviceIds == {"None", "kitchen", "office"}

\* not device_id
NoDevice(id) == id \in {"None", ""}

\* values of the DEVICE_ID setting
Configured == {"YOUR_DEVICE_ID", "", "kitchen", "attic"}

DeviceLists == UNION {[1..n -> DeviceIds] : n \in 0..MaxDevices}

\* a wrong selection: the configured id is used without looking it up in the list
select_device_unverified(configured, listed) ==
    LET wanted == IF configured # "YOUR_DEVICE_ID" THEN configured ELSE "None"
    IN  IF NoDevice(wanted) THEN listed[1] ELSE wanted

\* device_id for a non-empty list: the configured id when it is listed, else the
\* id of the first device
select_device(configured, listed) ==
    LET wanted == IF configured # "YOUR_DEVICE_ID" THEN configured ELSE "None"
    IN  IF NoDevice(wanted) THEN listed[1]
        ELSE IF \E i \in DOMAIN listed : listed[i] = wanted THEN wanted
        ELSE listed[1]

DeviceIdle ==
    /\ dpc = "idle"
    /\ program = "none"
    /\ DEVICE_ID = "YOUR_DEVICE_ID"
    /\ devices = <<>>
    /\ device_id = "None"
    /\ commands = {}

DeviceInit ==
    /\ dpc = "devices"
    /\ program \in {"service", "player"}
    /\ DEVICE_ID \in Configured
    /\ devices = <<>>
    /\ device_id = "None"
    /\ commands = {}

\* devices = get_available_devices(access_token): the list of a 200 response, []
\* otherwise; if not devices: sys.exit(1)
GetDevices ==
    /\ dpc = "devices"
    /\ \E ok \in BOOLEAN, listed \in DeviceLists :
          /\ devices' = IF ok THEN listed ELSE <<>>
          /\ dpc' = IF devices' = <<>> THEN "exited" ELSE "select"
    /\ UNCHANGED <<program, DEVICE_ID, device_id, commands>>

\* the choice of device_id; if not device_id: sys.exit(1)
SelectDevice ==
    /\ dpc = "select"
    /\ device_id' = select_device(DEVICE_ID, devices)
    /\ dpc' = IF NoDevice(device_id') THEN "exited" ELSE "ready"
    /\ UNCHANGED <<program, DEVICE_ID, devices, commands>>

\* transfer_playback(access_token, device_id)
TransferPlayback ==
    /\ dpc = "ready"
    /\ commands' = commands \cup {[op |-> "transfer_playback", device |-> device_id]}
    /\ dpc' = "transferred"
    /\ UNCHANGED <<program, DEVICE_ID, devices, device_id>>

\* play_album(access_token, device_id, album_uri); the service then waits for
\* the next scan with the same device_id
PlayAlbum ==
    /\ dpc = "transferred"
    /\ commands' = commands \cup {[op |-> "play_album", device |-> device_id]}
    /\ dpc' = IF program = "service" THEN "ready" ELSE "done"
    /\ UNCHANGED <<program, DEVICE_ID, devices, device_id>>

(***************************************************************************)
(* get_valid_access_token with load_tokens, refresh_access_token,          *)
(* save_tokens and validate_token_scope (spotify_auth.py:34-86, 187-271).  *)
(* Tokens are opaque names.  The write of save_tokens is taken to succeed  *)
(* (a failing write is caught and reported as a warning, lines 45-46), and *)
(* a refresh response either has no refresh_token field or has a token in  *)
(* it.                                                                     *)
(***************************************************************************)
TokenPair(access, refresh) == [access |-> access, refresh |-> refresh]

\* not token
NoToken(t) == t \in {"None", ""}

\* what the token file can hold
Stored == {TokenPair(a, r) : a \in {"None", "", "A0"}, r \in {"None", "R0"}}

ScopeNames == {"user-modify-playback-state", "user-read-playback-state", "user-read-email"}

\* status of a response, or the request raises
TokenResponses == {"200", "401", "other", "raise"}

\* a wrong test: no scope is taken to need the devices probe
NamesNoScope(scope) == FALSE

\* "user-modify-playback-state" in required_scope or
\* "user-read-playback-state" in required_scope
NamesPlaybackScope(scope) ==
    \/ "user-modify-playback-state" \in scope
    \/ "user-read-playback-state" \in scope

\* a wrong choice: the refresh token is whatever the response holds
NewRefreshTokenFromResponse(issued, stored) == issued

\* token_data.get("refresh_token", refresh_token)
NewRefreshToken(issued, stored) == IF issued = "None" THEN stored ELSE issued

TokenIdle ==
    /\ tpc = "idle"
    /\ storage = TokenPair("None", "None")
    /\ loaded = TokenPair("None", "None")
    /\ tokens = TokenPair("None", "None")
    /\ required_scope = {}
    /\ requests = <<>>
    /\ refresh_response = TokenPair("None", "None")
    /\ token_result = "None"

TokenInit ==
    /\ tpc = "load"
    /\ storage \in Stored
    /\ loaded = TokenPair("None", "None")
    /\ tokens = TokenPair("None", "None")
    /\ required_scope \in SUBSET ScopeNames
    /\ requests = <<>>
    /\ refresh_response = TokenPair("None", "None")
    /\ token_result = "None"

\* where the call goes once access_token is believed valid: the devices probe of
\* validate_token_scope, or the return of the token
AfterValidation(scope) ==
    IF scope # {} /\ NamesPlaybackScope(scope) THEN "scope" ELSE "returned"

\* access_token, refresh_token = load_tokens(); a file that cannot be read gives
\* (None, None); if not access_token or not refresh_token: return None
LoadTokens ==
    /\ tpc = "load"
    /\ \E readable \in BOOLEAN :
          /\ loaded' = IF readable THEN storage ELSE TokenPair("None", "None")
          /\ tokens' = loaded'
          /\ tpc' = IF NoToken(loaded'.access) \/ NoToken(loaded'.refresh)
                    THEN "returned" ELSE "profile"
    /\ token_result' = "None"
    /\ UNCHANGED <<storage, required_scope, requests, refresh_response>>

\* GET /me with the stored token: 200, 401, another status, or the request raises
ProfileProbe ==
    /\ tpc = "profile"
    /\ \E status \in TokenResponses :
          /\ requests' = Append(requests, RemoteOp("profile", tokens.access, status))
          /\ tpc' = CASE status = "200" -> AfterValidation(required_scope)
                      [] status = "401" -> "refresh"
                      [] status = "other" -> "returned"
                      [] status = "raise" -> "raised"
          /\ token_result' = IF status = "200" /\ tpc' = "returned" THEN tokens.access
                             ELSE "None"
    /\ UNCHANGED <<storage, loaded, tokens, required_scope, refresh_response>>

\* refresh_access_token(client_id, client_secret, refresh_token) and, when it gave
\* an access token, save_tokens(access_token, refresh_token)
Refresh ==
    /\ tpc = "refresh"
    /\ \E status \in TokenResponses, access \in {"None", "A1"}, issued \in {"None", "R1"} :
          /\ requests' = Append(requests, RemoteOp("refresh", tokens.refresh, status))
          /\ refresh_response' = IF status = "200" THEN TokenPair(access, issued)
                                 ELSE refresh_response
          /\ tokens' = IF status = "200"
                       THEN TokenPair(access, NewRefreshToken(issued, tokens.refresh))
                       ELSE TokenPair("None", "None")
          /\ storage' = IF status # "raise" /\ ~NoToken(tokens'.access) THEN tokens' ELSE storage
          /\ tpc' = IF status = "raise" THEN "raised"
                    ELSE IF NoToken(tokens'.access) THEN "returned"
                    ELSE AfterValidation(required_scope)
          /\ token_result' = IF tpc' = "returned" THEN tokens'.access ELSE "None"
    /\ UNCHANGED <<loaded, required_scope>>

\* validate_token_scope: GET /me/player/devices with access_token
ScopeProbe ==
    /\ tpc = "scope"
    /\ \E status \in TokenResponses :
          /\ requests' = Append(requests, RemoteOp("devices", tokens.access, status))
          /\ tpc' = IF status = "raise" THEN "raised" ELSE "returned"
          /\ token_result' = IF status = "200" THEN tokens.access ELSE "None"
    /\ UNCHANGED <<storage, loaded, tokens, required_scope, refresh_response>>

(***************************************************************************)
(* Specifications.                                                         *)
(***************************************************************************)
Init == NfcInit /\ UriIdle /\ ScanIdle /\ ServiceIdle /\ DeviceIdle /\ TokenIdle

Next ==
    \/ Request /\ UNCHANGED <<uriVars, scanVars, serviceVars, deviceVars, tokenVars>>
    \/ Anticoll /\ UNCHANGED <<uriVars, scanVars, serviceVars, deviceVars, tokenVars>>
    \/ \E data \in BlockPool : ReadBlock(data) /\ UNCHANGED <<uriVars, scanVars, serviceVars, deviceVars, tokenVars>>
    \/ ReadBlockFails /\ UNCHANGED <<uriVars, scanVars, serviceVars, deviceVars, tokenVars>>
    \/ ParseBlocks /\ UNCHANGED <<uriVars, scanVars, serviceVars, deviceVars, tokenVars>>

\* the tag read: request, anticollision, the block loop, then parse_nfc_data
Spec == Init /\ [][Next]_vars

UriSpecInit == NfcIdle /\ UriInit /\ ScanIdle /\ ServiceIdle /\ DeviceIdle /\ TokenIdle

UriNext ==
    \/ Normalize /\ UNCHANGED <<nfcVars, scanVars, serviceVars, deviceVars, tokenVars>>
    \/ Validate /\ UNCHANGED <<nfcVars, scanVars, serviceVars, deviceVars, tokenVars>>
    \/ Renormalize /\ UNCHANGED <<nfcVars, scanVars, serviceVars, deviceVars, tokenVars>>
    \/ ValidateRaw /\ UNCHANGED <<nfcVars, scanVars, serviceVars, deviceVars, tokenVars>>

\* the URI pipeline on every raw string
UriSpec == UriSpecInit /\ [][UriNext]_vars

ScanSpecInit == NfcIdle /\ UriIdle /\ ScanInit /\ ServiceIdle /\ DeviceIdle /\ TokenIdle

ScanNext == ProcessScan /\ UNCHANGED <<nfcVars, uriVars, serviceVars, deviceVars, tokenVars>>

\* process_album_scan on every raw string, under every answer of the remote service
ScanSpec == ScanSpecInit /\ [][ScanNext]_vars

ServiceSpecInit == NfcIdle /\ UriIdle /\ ScanIdle /\ LoopInit /\ DeviceIdle /\ TokenIdle

ServiceNext ==
    \/ LoopRead /\ UNCHANGED <<nfcVars, uriVars, deviceVars, tokenVars>>
    \/ MfrcImport /\ UNCHANGED <<nfcVars, uriVars, deviceVars, tokenVars>>
    \/ MfrcAcquire /\ UNCHANGED <<nfcVars, uriVars, deviceVars, tokenVars>>
    \/ MfrcRead /\ UNCHANGED <<nfcVars, uriVars, deviceVars, tokenVars>>
    \/ MfrcCleanup /\ UNCHANGED <<nfcVars, uriVars, deviceVars, tokenVars>>
    \/ MfrcReturnText /\ UNCHANGED <<nfcVars, uriVars, deviceVars, tokenVars>>
    \/ MfrcOnInterrupt /\ UNCHANGED <<nfcVars, uriVars, deviceVars, tokenVars>>
    \/ MfrcOnException /\ UNCHANGED <<nfcVars, uriVars, deviceVars, tokenVars>>
    \/ AfterFirst /\ UNCHANGED <<nfcVars, uriVars, deviceVars, tokenVars>>
    \/ SecondBackend /\ UNCHANGED <<nfcVars, uriVars, deviceVars, tokenVars>>
    \/ HandleRead /\ UNCHANGED <<nfcVars, uriVars, deviceVars, tokenVars>>

\* the scan loop of the service: read a tag, debounce, process the scan
ServiceSpec == ServiceSpecInit /\ [][ServiceNext]_vars

DeviceSpecInit == NfcIdle /\ UriIdle /\ ScanIdle /\ ServiceIdle /\ DeviceInit /\ TokenIdle

DeviceNext ==
    \/ GetDevices /\ UNCHANGED <<nfcVars, uriVars, scanVars, serviceVars, tokenVars>>
    \/ SelectDevice /\ UNCHANGED <<nfcVars, uriVars, scanVars, serviceVars, tokenVars>>
    \/ TransferPlayback /\ UNCHANGED <<nfcVars, uriVars, scanVars, serviceVars, tokenVars>>
    \/ PlayAlbum /\ UNCHANGED <<nfcVars, uriVars, scanVars, serviceVars, tokenVars>>

\* the start-up of either program up to its playback commands
DeviceSpec == DeviceSpecInit /\ [][DeviceNext]_vars

TokenSpecInit == NfcIdle /\ UriIdle /\ ScanIdle /\ ServiceIdle /\ DeviceIdle /\ TokenInit

TokenNext ==
    \/ LoadTokens /\ UNCHANGED <<nfcVars, uriVars, scanVars, serviceVars, deviceVars>>
    \/ ProfileProbe /\ UNCHANGED <<nfcVars, uriVars, scanVars, serviceVars, deviceVars>>
    \/ Refresh /\ UNCHANGED <<nfcVars, uriVars, scanVars, serviceVars, deviceVars>>
    \/ ScopeProbe /\ UNCHANGED <<nfcVars, uriVars, scanVars, serviceVars, deviceVars>>

\* one call of get_valid_access_token on every content of the token file
TokenSpec == TokenSpecInit /\ [][TokenNext]_vars

(***************************************************************************)
(* Properties of parse_nfc_data, stated on the state at its return.        *)
(***************************************************************************)
Parsed == pc = "done"

\* the bytes of block i as the claims count them
BytesOf(i) == BlockBytes(all_blocks[i])

RECURSIVE ConcatAscending(_)
\* the blocks of the indices in S, lowest index first
ConcatAscending(S) ==
    IF S = {} THEN <<>>
    ELSE LET m == CHOOSE k \in S : \A j \in S : j <= k
         IN ConcatAscending(S \ {m}) \o BytesOf(m)

\* every available block, in ascending index order
FullBuffer == ConcatAscending(DOMAIN all_blocks)

\* the blocks that wholly contain the marker
MarkerBlocks == {i \in DOMAIN all_blocks : Contains(BytesOf(i), Marker)}

\* a byte that ends the content: zero, or above 127 and not in the allow-list
Terminator(b) == b = 0 \/ (b > 127 /\ b \notin {224, 225, 254})

\* the earliest offset of a terminator at or after offset floor, else the length
EarliestCut(rb, floor) ==
    LET cuts == {i \in 0..(Len(rb) - 1) : Terminator(rb[i + 1]) /\ i >= floor}
    IN IF cuts = {} THEN Len(rb) ELSE CHOOSE i \in cuts : \A j \in cuts : i <= j

\* the text of a byte slice: permissive decoding, trailing NULs, then whitespace
TextOf(bs) == Strip(RStripNul(Utf8Ignore(bs)))

\* C1 (as stated): with the marker nowhere in the buffer, the full buffer is
\* truncated, decoded and returned, found exactly when the text is non-empty.
C1_FallbackReturnsFullBuffer ==
    (Parsed /\ ~Contains(FullBuffer, Marker)) =>
        LET t == TextOf(Take(FullBuffer, EarliestCut(FullBuffer, ContentFloor + 1)))
        IN  /\ all_bytes = FullBuffer
            /\ parsed_string = (IF t # <<>> THEN PyStr(t) ELSE PyNone)

\* C1 (amended): with the marker nowhere in the buffer, the buffer is still every
\* available block in ascending index order, but the outcome is not-found whatever
\* the buffer holds.
C1_NoMarkerIsNotFound ==
    (Parsed /\ ~Contains(FullBuffer, Marker)) =>
        /\ all_bytes = FullBuffer
        /\ start_pos = -1
        /\ parsed_string = PyNone

\* a marker-free buffer whose text is not empty, answered with None
C1_Witness ==
    /\ Parsed
    /\ ~Contains(FullBuffer, Marker)
    /\ TextOf(Take(FullBuffer, EarliestCut(FullBuffer, ContentFloor + 1))) # <<>>
    /\ all_bytes = FullBuffer
    /\ parsed_string = PyNone

\* the slice from the marker on
Relevant == Drop(all_bytes, start_pos)

\* C2 (as stated): the output is cut at the earliest terminator that has at least
\* 10 accepted bytes before it, else it runs to the end of the buffer.
C2_CutAfterTenBytes ==
    (Parsed /\ start_pos # -1) =>
        /\ end_pos = EarliestCut(Relevant, ContentFloor)
        /\ parsed_string = PyStr(TextOf(Take(Relevant, EarliestCut(Relevant, ContentFloor))))

\* C2 (amended): the output is cut at the earliest terminator whose offset is
\* greater than 10 (at least 11 bytes before it); a terminator at offset 10 or
\* less does not cut; with no such offset the slice runs to the end.
C2_CutPastOffsetTen ==
    (Parsed /\ start_pos # -1) =>
        /\ end_pos = EarliestCut(Relevant, ContentFloor + 1)
        /\ parsed_string = PyStr(TextOf(Take(Relevant, EarliestCut(Relevant, ContentFloor + 1))))

\* a terminator at offset 10 that is passed over, and a later one that cuts
C2_Witness ==
    /\ Parsed
    /\ start_pos # -1
    /\ Len(Relevant) > ContentFloor
    /\ Terminator(Relevant[ContentFloor + 1])
    /\ end_pos > ContentFloor
    /\ end_pos < Len(Relevant)

\* n and m are neighbouring available blocks
Neighbours(n, m) ==
    /\ n \in DOMAIN all_blocks
    /\ m \in DOMAIN all_blocks
    /\ n < m
    /\ \A j \in DOMAIN all_blocks : ~(n < j /\ j < m)

\* the marker is split at the boundary of n and m: its first k bytes end block n,
\* the rest start block m, and neither block holds the whole marker
SplitAt(n, m, k) ==
    /\ Neighbours(n, m)
    /\ \A c \in 1..Len(all_blocks[n]) : all_blocks[n][c] <= 255
    /\ \A c \in 1..Len(all_blocks[m]) : all_blocks[m][c] <= 255
    /\ Len(all_blocks[n]) >= k
    /\ Drop(all_blocks[n], Len(all_blocks[n]) - k) = Take(Marker, k)
    /\ StartsWith(all_blocks[m], Drop(Marker, k))
    /\ ~Contains(all_blocks[n], Marker)
    /\ ~Contains(all_blocks[m], Marker)

\* the same byte stream with the marker wholly inside block m
HeadMovedForward(n, m, k) ==
    [i \in DOMAIN all_blocks |->
        IF i = n THEN Take(all_blocks[n], Len(all_blocks[n]) - k)
        ELSE IF i = m THEN Take(Marker, k) \o all_blocks[m]
        ELSE all_blocks[i]]

\* the same byte stream with the marker wholly inside block n
TailMovedBack(n, m, k) ==
    [i \in DOMAIN all_blocks |->
        IF i = n THEN all_blocks[n] \o Drop(Marker, k)
        ELSE IF i = m THEN Drop(all_blocks[m], Len(Marker) - k)
        ELSE all_blocks[i]]

SameAsUnsplit(n, m, k) ==
    /\ parsed_string.kind = "str"
    /\ parsed_string = parse_nfc_data(HeadMovedForward(n, m, k))
    /\ parsed_string = parse_nfc_data(TailMovedBack(n, m, k))

\* offset in the full buffer of the first byte of block n
OffsetOf(n) == Len(ConcatAscending({i \in DOMAIN all_blocks : i < n}))

\* C3 (as stated): a marker split at a block boundary gives found and the text of
\* the block set whose blocks hold the same byte stream with the marker unsplit.
C3_SplitSameAsUnsplit ==
    Parsed =>
        \A n, m \in DOMAIN all_blocks : \A k \in 1..(Len(Marker) - 1) :
            SplitAt(n, m, k) => SameAsUnsplit(n, m, k)

\* C3 (amended): when no block wholly contains the marker and the first marker of
\* the byte stream is split at a block boundary, the outcome is found, with the
\* text of the block set that holds the same byte stream with that marker unsplit.
C3_FirstMarkerSplitSameAsUnsplit ==
    (Parsed /\ MarkerBlocks = {}) =>
        \A n, m \in DOMAIN all_blocks : \A k \in 1..(Len(Marker) - 1) :
            (SplitAt(n, m, k) /\ Find(FullBuffer, Marker) = OffsetOf(m) - k)
                => SameAsUnsplit(n, m, k)

\* a split first marker with bytes before it, recovered as in the unsplit case
C3_Witness ==
    /\ Parsed
    /\ MarkerBlocks = {}
    /\ \E n, m \in DOMAIN all_blocks : \E k \in 1..(Len(Marker) - 1) :
          /\ SplitAt(n, m, k)
          /\ Find(FullBuffer, Marker) = OffsetOf(m) - k
          /\ OffsetOf(m) - k > 0
          /\ SameAsUnsplit(n, m, k)

\* the lowest-indexed block that wholly contains the marker
LowestMarkerBlock == CHOOSE b \in MarkerBlocks : \A j \in MarkerBlocks : b <= j

\* {4: 'xxspotify:al', 8: 'bum:ABC123\x00\x00'}
ExampleBlocks == [i \in {BlockStep, 2 * BlockStep} |->
                    IF i = BlockStep THEN B_xxspotify_al ELSE B_bum_ABC123]

T_spotify_album_ABC123 == <<115, 112, 111, 116, 105, 102, 121, 58, 97, 108, 98, 117, 109, 58, 65, 66, 67, 49, 50, 51>>   \* 'spotify:album:ABC123'

\* C4: when some block wholly contains the marker, the buffer is exactly the
\* available blocks from the lowest such block B up to the highest index, in
\* ascending order, each once, gaps skipped, nothing from below B; the blocks
\* {4: 'xxspotify:al', 8: 'bum:ABC123' NUL NUL} yield 'spotify:album:ABC123'.
C4_BufferFromMarkerBlock ==
    (Parsed /\ MarkerBlocks # {}) =>
        /\ all_bytes = ConcatAscending({i \in DOMAIN all_blocks : i >= LowestMarkerBlock})
        /\ (all_blocks = ExampleBlocks => parsed_string = PyStr(T_spotify_album_ABC123))

\* a marker block with a non-empty block below it and a gap above it
C4_Witness ==
    /\ Parsed
    /\ MarkerBlocks # {}
    /\ \E i \in DOMAIN all_blocks : i < LowestMarkerBlock /\ BytesOf(i) # <<>>
    /\ \E i \in DOMAIN all_blocks : i > LowestMarkerBlock + 1
    /\ all_bytes = ConcatAscending({i \in DOMAIN all_blocks : i >= LowestMarkerBlock})

\* offset of the first marker in the assembled buffer
FirstMarkerOffset ==
    CHOOSE p \in 0..Len(all_bytes) :
        /\ OccursAt(all_bytes, Marker, p)
        /\ \A q \in 0..(p - 1) : ~OccursAt(all_bytes, Marker, q)

\* C5: when some block wholly contains the marker, the outcome is found, and the
\* text begins exactly at the first marker of the assembled buffer: the bytes
\* before it are discarded and the text starts with 'spotify'.
C5_TextStartsAtFirstMarker ==
    (Parsed /\ MarkerBlocks # {}) =>
        /\ parsed_string.kind = "str"
        /\ parsed_string.text # <<>>
        /\ StartsWith(parsed_string.text, Marker)
        /\ start_pos = FirstMarkerOffset
        /\ parsed_string.text =
              TextOf(SubSeq(all_bytes, FirstMarkerOffset + 1, FirstMarkerOffset + end_pos))

\* bytes before the first marker, and a second marker after it
C5_Witness ==
    /\ Parsed
    /\ MarkerBlocks # {}
    /\ start_pos > 0
    /\ \E q \in (start_pos + 1)..Len(all_bytes) : OccursAt(all_bytes, Marker, q)
    /\ StartsWith(parsed_string.text, Marker)

\* C6: an empty mapping, and a mapping whose blocks are all empty, give the
\* not-found outcome, and no exception.
C6_EmptyIsNotFound ==
    (Parsed /\ \A i \in DOMAIN all_blocks : all_blocks[i] = <<>>) =>
        /\ parsed_string = PyNone
        /\ ndef_result.text = PyNone

\* the empty mapping, answered with None
C6_Witness ==
    /\ Parsed
    /\ DOMAIN all_blocks = {}
    /\ parsed_string = PyNone

\* C7: for every mapping of block indices to blocks of any length and any byte
\* values, parse_nfc_data returns a text or None; no exception leaves it.
C7_NeverRaises ==
    Parsed => parsed_string.kind \in {"str", "None"}

\* a text returned from a slice that is not well-formed UTF-8, read across a gap
C7_Witness ==
    /\ Parsed
    /\ parsed_string.kind = "str"
    /\ start_pos # -1
    /\ ~Utf8WellFormed(Take(Relevant, end_pos))
    /\ DOMAIN all_blocks = {BlockStep, 3 * BlockStep}

\* C8 (as stated): a returned text never ends with a NUL character and has no
\* leading or trailing whitespace.
C8_TextIsClean ==
    (Parsed /\ parsed_string.kind = "str" /\ parsed_string.text # <<>>) =>
        LET t == parsed_string.text IN
        /\ t[Len(t)] # 0
        /\ ~IsSpace(t[Len(t)])
        /\ ~IsSpace(t[1])

(***************************************************************************)
(* Properties of normalize_album_uri and validate_album_uri.               *)
(***************************************************************************)
\* C9 (as stated): normalize(normalize(x)) = normalize(x) for every string x.
C9_NormalizeIdempotent ==
    upc = "renormalized" => renormalized = normalized

\* the trimmed input is a bare identifier in the claim's sense
BareId(t) == t # <<>> /\ ~Contains(t, Colon) /\ ~Contains(t, WebLinkMarker)

\* C10 (as stated): a non-empty trimmed input with no ':' and no web-link marker
\* is wrapped whole as 'spotify:album:' + input, which validation accepts.
C10_BareIdWrapped ==
    (upc = "checked" /\ BareId(Strip(uri))) =>
        /\ normalized = CanonicalPrefix \o Strip(uri)
        /\ valid

\* C10 (amended): a non-empty trimmed input with no ':', no web-link marker and
\* no 'http' in it is wrapped whole as 'spotify:album:' + input, which validation
\* accepts.
C10_BareIdWithoutHttpWrapped ==
    (upc = "checked" /\ BareId(Strip(uri)) /\ ~Contains(Strip(uri), Http)) =>
        /\ normalized = CanonicalPrefix \o Strip(uri)
        /\ valid

\* a bare identifier given with surrounding whitespace, wrapped and accepted
C10_Witness ==
    /\ upc = "checked"
    /\ BareId(Strip(uri))
    /\ ~Contains(Strip(uri), Http)
    /\ uri # Strip(uri)
    /\ normalized = CanonicalPrefix \o Strip(uri)
    /\ valid

\* the text after the first web-link segment of s
AfterWebLink(s) == Drop(s, Find(s, WebLinkMarker) + Len(WebLinkMarker))

\* that text up to the next '?' or '/'
LinkId(s) ==
    LET a == AfterWebLink(s)
        stops == {i \in 1..Len(a) : a[i] = 63 \/ a[i] = 47}
    IN  IF stops = {} THEN a ELSE Take(a, (CHOOSE i \in stops : \A j \in stops : i <= j) - 1)

\* a web link with one album segment and an id that holds neither ':' nor 'http'
PlainWebLink(s) ==
    /\ ~StartsWith(s, CanonicalPrefix)
    /\ Contains(s, WebLinkMarker)
    /\ ~Contains(AfterWebLink(s), AlbumSegment)
    /\ LinkId(s) # <<>>
    /\ ~Contains(LinkId(s), Colon)
    /\ ~Contains(LinkId(s), Http)

\* C11 (as stated): a web link that does not start with the canonical prefix is
\* normalised to 'spotify:album:' + id, id being the text after the album segment
\* up to the next '?' or '/'; the result holds no '?' and no '/' and equals the
\* normalisation of the bare id.
C11_WebLinkToCanonical ==
    (upc = "checked" /\ PlainWebLink(Strip(uri))) =>
        /\ normalized = CanonicalPrefix \o LinkId(Strip(uri))
        /\ ~Contains(normalized, QuestionMark)
        /\ ~Contains(normalized, Slash)
        /\ normalized = normalize_album_uri(LinkId(Strip(uri)))

\* C13: validation accepts only strings that, trimmed, start with the canonical
\* prefix followed by a non-empty id or contain the web-link segment; the empty
\* string, a whitespace-only string and the bare prefix are rejected.
C13_ValidateAcceptsOnlyAlbumForms ==
    upc = "raw_checked" =>
        /\ valid =>
             \/ StartsWith(Strip(uri), CanonicalPrefix) /\ Len(Strip(uri)) > Len(CanonicalPrefix)
             \/ Contains(Strip(uri), WebLinkMarker)
        /\ (uri = <<>> \/ Strip(uri) = <<>> \/ uri = CanonicalPrefix) => ~valid

\* the bare prefix, rejected
C13_Witness ==
    /\ upc = "raw_checked"
    /\ uri = CanonicalPrefix
    /\ ~valid

\* the trimmed input is in none of the forms normalisation recognises
Unrecognized(t) ==
    /\ ~StartsWith(t, CanonicalPrefix)
    /\ ~Contains(t, WebLinkMarker)
    /\ (Contains(t, Colon) \/ Contains(t, Http))

\* C14: an input that normalisation passes through unrecognised comes back as the
\* trimmed input, unchanged, and validation rejects it.
C14_UnrecognizedPassesAndIsRejected ==
    (upc = "checked" /\ Unrecognized(Strip(uri))) =>
        /\ normalized = Strip(uri)
        /\ ~valid

\* an unrecognised input given with surrounding whitespace
C14_Witness ==
    /\ upc = "checked"
    /\ Unrecognized(Strip(uri))
    /\ uri # Strip(uri)
    /\ normalized = Strip(uri)
    /\ ~valid

\* the canonical prefix followed by at least one character
HasAlbumId(u) == StartsWith(u, CanonicalPrefix) /\ Len(u) > Len(CanonicalPrefix)

\* the context URIs handed to play_album by the call
PlayedUris == {remote_ops[i].arg : i \in {j \in DOMAIN remote_ops : remote_ops[j].op = "play_album"}}

\* C12: whenever validation accepts the normalised value it is 'spotify:album:'
\* followed by at least one character, so every context URI process_album_scan
\* hands to play_album has that form.
C12_AcceptedHasAlbumId ==
    spc = "returned" =>
        /\ validate_album_uri(album_uri) => HasAlbumId(album_uri)
        /\ \A u \in PlayedUris : HasAlbumId(u)

\* a web link with a query, played as the canonical URI of its id
C12_Witness ==
    /\ spc = "returned"
    /\ album_uri_raw = WebLinkMarker \o T_id \o T_query
    /\ PlayedUris = {CanonicalPrefix \o T_id}
    /\ scan_result.success

\* C18: when the normalised form of the scanned string fails validation, the
\* call returns (False, message) with the raw scanned string in the message and
\* issues no remote operation.
C18_InvalidReportedWithoutRemoteOps ==
    (spc = "returned" /\ ~validate_album_uri(normalize_album_uri(album_uri_raw))) =>
        /\ ~scan_result.success
        /\ scan_result.message = M_invalid \o album_uri_raw
        /\ Contains(scan_result.message, album_uri_raw)
        /\ remote_ops = <<>>

\* a scanned string that normalisation alters and validation rejects
C18_Witness ==
    /\ spc = "returned"
    /\ album_uri_raw = T_space \o Colon
    /\ album_uri = Colon
    /\ ~scan_result.success
    /\ remote_ops = <<>>

\* read_from_nfc_tag_ndef has returned
NdefReturned == pc \in {"done", "returned"}

\* C16 (as stated): read_from_nfc_tag_ndef returns a (text, error) pair on every
\* path, the path on which the request step finds no tag included.
C16_NdefReturnsPair == NdefReturned => ndef_result.pair

\* C15 (as stated): a user interrupt delivered during the tag read ends the scan
\* loop; it is never turned into an ordinary read error after which the loop
\* sleeps and goes back to wait for the next tag.
C15_InterruptEndsLoop == read_interrupted => ~(lpc = "top" /\ log = "error")

\* C17: whenever read_from_nfc_tag_mfrc522 returns after the attempt to acquire
\* the reader, GPIO.cleanup has been invoked at least once.
C17_CleanupBeforeReturn == mpc = "returned" => cleanup_count >= 1

\* the return that follows a user interrupt, the reader released once
C17_Witness ==
    /\ mpc = "returned"
    /\ mfrc_result = Pair(PyNone, PyStr(M_cancelled))
    /\ cleanup_count = 1

\* the letters a and b are equal up to case
SameLetter(a, b) ==
    \/ a = b
    \/ a \in 65..90 /\ b = a + 32
    \/ b \in 65..90 /\ a = b + 32

\* t occurs in s, case ignored
OccursIgnoringCase(s, t) ==
    \E i \in 1..(Len(s) - Len(t) + 1) : \A j \in 1..Len(t) : SameLetter(s[i + j - 1], t[j])

\* read_from_nfc_tag has invoked read_from_nfc_tag_ndef
SecondInvoked == Len(backends) = 2

\* the first backend returned no text, and no error or one that holds 'not found'
FirstFoundNothing ==
    /\ ~Truthy(mfrc_result.text)
    /\ \/ mfrc_result.error = PyNone
       \/ OccursIgnoringCase(mfrc_result.error.text, NotFound)

\* C19: the second backend is invoked if and only if the first returned no text
\* and its error is absent or contains 'not found' in any case; a text of the
\* first backend is returned with error None, any other error of the first
\* backend is returned unchanged, and in both cases the second is not invoked.
C19_SecondBackendOnlyAsFallback ==
    (rpc \in {"second", "returned", "raised"} /\ MfrcReturned) =>
        /\ SecondInvoked <=> FirstFoundNothing
        /\ Truthy(mfrc_result.text) =>
             /\ rpc = "returned"
             /\ read_result = [text |-> mfrc_result.text, error |-> PyNone, raised |-> "None"]
        /\ (~Truthy(mfrc_result.text) /\ ~FirstFoundNothing) =>
             /\ rpc = "returned"
             /\ read_result = [text |-> PyNone, error |-> mfrc_result.error, raised |-> "None"]

\* the driver's error 'Device Not Found' sends the read to the second backend
C19_Witness ==
    /\ rpc = "second"
    /\ mfrc_result = Pair(PyNone, PyStr(M_error_reading \o E_device_not_found))
    /\ backends = <<"mfrc522", "ndef">>

\* the iteration handles a payload that was read successfully
HandlesPayload ==
    /\ lpc = "reading"
    /\ lpc' # "reading"
    /\ rpc = "returned"
    /\ read_result.error = PyNone
    /\ Truthy(read_result.text)

\* the payload equals the last processed one and comes within the window after it
WithinWindow ==
    /\ read_result.text = last_scanned_uri
    /\ last_scan_time # NoTime
    /\ now - last_scan_time < DEBOUNCE_SECONDS * TicksPerSecond

\* C20: a payload equal to the last processed one that arrives less than
\* DEBOUNCE_SECONDS after that processed scan is ignored: process_album_scan is
\* not called and scan_count, last_scanned_uri and last_scan_time keep their
\* values; any other payload is processed and recorded with the time it was
\* read, whatever the outcome of the processing.
C20_Debounce ==
    [][HandlesPayload =>
         IF WithinWindow
         THEN /\ UNCHANGED <<scan_count, last_scanned_uri, last_scan_time, scanVars>>
              /\ spc' # "returned"
         ELSE /\ scan_count' = scan_count + 1
              /\ spc' = "returned"
              /\ album_uri_raw' = read_result.text.text
              /\ last_scanned_uri' = read_result.text
              /\ last_scan_time' = now]_vars

\* a repeated tag was ignored; at the end of that iteration the window, still
\* counted from the processed scan, has run out
C20_Witness ==
    /\ log = "same_tag"
    /\ scan_count = 1
    /\ last_scan_time # NoTime
    /\ now - last_scan_time >= DEBOUNCE_SECONDS * TicksPerSecond

\* s has no trailing NUL and no leading or trailing whitespace
CleanEnds(s) ==
    \/ s = <<>>
    \/ /\ s[Len(s)] # 0
       /\ ~IsSpace(s[1])
       /\ ~IsSpace(s[Len(s)])

\* C26 (as stated): the text a successful read of read_from_nfc_tag_mfrc522
\* returns has no trailing NUL and no leading or trailing whitespace, whatever
\* mix of spaces and NULs pads the string the reader yields.
C26_MfrcTextIsClean ==
    (mpc = "returned" /\ mfrc_result.error = PyNone) => CleanEnds(mfrc_result.text.text)

\* C27 (as stated): validate_album_uri accepts every string that, trimmed,
\* starts with 'spotify:album:' and has at least one character after it,
\* whatever those characters are.
C27_AcceptsEveryPrefixedId ==
    (/\ upc = "raw_checked"
     /\ StartsWith(Strip(uri), CanonicalPrefix)
     /\ Len(Strip(uri)) > Len(CanonicalPrefix)) => valid

\* the operations of the call, by name
OpNames == [i \in DOMAIN remote_ops |-> remote_ops[i].op]

ScanOrder == <<"get_album_info", "transfer_playback", "play_album">>

\* C22: for a scanned string that passes validation the remote operations are
\* issued in the order album lookup, playback transfer, play command; the play
\* command follows the transfer whatever status the transfer returned; the
\* outcome is success exactly when the play command returned 204; a step that
\* raises ends the call with (False, message).
C22_LookupTransferPlay ==
    (spc = "returned" /\ validate_album_uri(normalize_album_uri(album_uri_raw))) =>
        /\ Len(remote_ops) \in 1..3
        /\ OpNames = SubSeq(ScanOrder, 1, Len(remote_ops))
        /\ \A i \in 1..(Len(remote_ops) - 1) : remote_ops[i].status # "raise"
        /\ Len(remote_ops) < 3 => remote_ops[Len(remote_ops)].status = "raise"
        /\ scan_result.success <=> (Len(remote_ops) = 3 /\ remote_ops[3].status = "ok")
        /\ (\E i \in DOMAIN remote_ops : remote_ops[i].status = "raise") =>
             (~scan_result.success /\ StartsWith(scan_result.message, M_error))

\* the transfer was refused, the play command was issued all the same and succeeded
C22_Witness ==
    /\ spc = "returned"
    /\ Len(remote_ops) = 3
    /\ remote_ops[2].status = "other"
    /\ remote_ops[3].status = "ok"
    /\ scan_result = [success |-> TRUE, message |-> M_playing]

\* C21: whatever the outcome of an iteration (read error, unexpected reader
\* exception, empty read, debounced scan, processed scan that failed or not),
\* the loop goes back to wait for the next tag; it ends only with the stop
\* summary that follows a user interrupt.
C21_OutcomesKeepLoopRunning ==
    [][(lpc = "reading" /\ lpc' # "reading") =>
         \/ lpc' = "top" /\ log' \in {"unexpected_error", "error", "no_data", "same_tag", "scan"}
         \/ lpc' = "stopped" /\ log' = "stopped"]_vars

\* the reader raised an exception nobody expected and the loop waits again
C21_Witness ==
    /\ lpc = "top"
    /\ log = "unexpected_error"
    /\ read_result.raised = "TypeError"

\* the ids of the listed devices
Listed == {devices[i] : i \in DOMAIN devices}

\* C23: in both programs every playback command uses the id of a listed device:
\* the configured DEVICE_ID when it is listed, the first listed device
\* otherwise; with an empty list the program exits without any command.
C23_DeviceIsListed ==
    /\ \A c \in commands :
         /\ c.device \in Listed
         /\ c.device = IF DEVICE_ID \in Listed THEN DEVICE_ID ELSE devices[1]
    /\ (dpc # "devices" /\ devices = <<>>) => (dpc = "exited" /\ commands = {})

\* the configured device is not listed: both commands went to the first listed one
C23_Witness ==
    /\ DEVICE_ID = "attic"
    /\ devices = <<"office", "kitchen">>
    /\ commands = {[op |-> "transfer_playback", device |-> "office"],
                   [op |-> "play_album", device |-> "office"]}

\* both tokens were loaded from storage
LoadedBoth == ~NoToken(loaded.access) /\ ~NoToken(loaded.refresh)

\* the profile probe returned 200 for the stored token
ProfileAccepted ==
    /\ Len(requests) >= 1
    /\ requests[1] = RemoteOp("profile", loaded.access, "200")

\* the profile probe returned 401 and the refresh produced an access token
RefreshSucceeded ==
    /\ Len(requests) >= 2
    /\ requests[1] = RemoteOp("profile", loaded.access, "401")
    /\ requests[2] = RemoteOp("refresh", loaded.refresh, "200")
    /\ ~NoToken(refresh_response.access)

\* the refresh was tried and produced no access token
RefreshFailed ==
    /\ Len(requests) >= 2
    /\ requests[2].op = "refresh"
    /\ requests[2].status # "200" \/ NoToken(refresh_response.access)

\* the token the call believes valid
BelievedValid == IF ProfileAccepted THEN loaded.access ELSE refresh_response.access

\* required_scope names a playback scope
NeedsPlayback ==
    required_scope \cap {"user-modify-playback-state", "user-read-playback-state"} # {}

\* the devices probe returned 200 for the token t
DevicesAccepted(t) ==
    /\ requests # <<>>
    /\ requests[Len(requests)] = RemoteOp("devices", t, "200")

\* C24: get_valid_access_token returns a token only when both tokens were
\* loaded, the profile probe returned 200 for the stored token or returned 401
\* and the refresh produced a new access token, and, when required_scope names
\* a playback scope, the devices probe returned 200 for the returned token; in
\* every other case it returns None, and with a missing stored token it returns
\* None without any request.
C24_TokenOnlyWhenValidated ==
    tpc = "returned" =>
        /\ token_result # "None" <=>
             /\ LoadedBoth
             /\ ProfileAccepted \/ RefreshSucceeded
             /\ NeedsPlayback => DevicesAccepted(BelievedValid)
        /\ token_result # "None" => token_result = BelievedValid
        /\ ~LoadedBoth => (token_result = "None" /\ requests = <<>>)

\* the stored token had expired; the refreshed one passed the devices probe
C24_Witness ==
    /\ tpc = "returned"
    /\ token_result = "A1"
    /\ Len(requests) = 3
    /\ requests[3] = RemoteOp("devices", "A1", "200")

====
